---------------------------- MODULE Spec2Model ----------------------------
(***************************************************************************)
(* A model of the crawl pipeline of fanout-immo-scraper: the Dispatcher    *)
(* (src/dispatcher), the Discovery Worker (src/discovery_worker), the      *)
(* Extractor Worker (src/extractor_worker), the fetch loops and the        *)
(* chunking the components are built on.                                   *)
(*                                                                         *)
(* Collaborators (the upstream site, SQS, S3, SSM Parameter Store, the     *)
(* API gateway, the Lambda clock) are the environment: every call to one   *)
(* of them draws its answer from the answers that collaborator can give.   *)
(*                                                                         *)
(* Call site src/discovery_worker/lambda_function.py:96 passes             *)
(* (session, url, page_num) to scrape_search_page_with_retries, whose      *)
(* parameters at line 37 are (session, gateway, url, page_num).  Python    *)
(* answers that call with a TypeError, which lambda_handler's handler at   *)
(* line 170 turns into a failed message that made no request and touched   *)
(* no store.  SpecWritten takes the call as written.  The other            *)
(* specifications take it as bound (gateway is not read by the function    *)
(* body); the behaviours of the call as written are the behaviours there   *)
(* in which the first page of a message raises, so every invariant of      *)
(* those specifications also holds of the call as written.                 *)
(***************************************************************************)
EXTENDS Integers, Sequences, FiniteSets, TLC

(***************************************************************************)
(* The upstream's answers to one GET.                                      *)
(***************************************************************************)
R200ok  == "200 json"      \* 200, body parses
R200bad == "200 garbage"   \* 200, response.json() raises JSONDecodeError
R403    == "403"
R404    == "404"
R429    == "429"
R500    == "500"           \* any status the code does not name
NetErr  == "RequestException"

Responses == {R200ok, R200bad, R403, R404, R429, R500, NetErr}

status_code(response) ==
    CASE response \in {R200ok, R200bad} -> 200
      [] response = R403 -> 403
      [] response = R404 -> 404
      [] response = R429 -> 429
      [] response = R500 -> 500

\* The transient answers of spec section 4.1, items 4 to 6, for the search fetch.
TransientSearch == {R403, R404, R429, R500, NetErr}
\* The same for the detail fetch, where 404 is a final answer.
TransientDetail == {R403, R429, R500, NetErr}

(***************************************************************************)
(* Discovery Worker: scrape_search_page_with_retries.                      *)
(* script[i] is the answer the i-th session.get receives.  The result      *)
(* says how the call ended, how many requests it made, and which request's *)
(* body it returned (0: none).                                             *)
(***************************************************************************)
max_retries_search == 5

SearchLoopGuardOffByOne(nbr_retries) == nbr_retries <= max_retries_search

SearchLoopGuard(nbr_retries) == nbr_retries < max_retries_search

\* line 59: break leaves the while loop and reaches the raise of line 74.
SearchOnBadJson == "break"

RECURSIVE search_loop(_, _)
search_loop(script, nbr_retries) ==
    IF ~SearchLoopGuard(nbr_retries)
    THEN [how |-> "raise", cause |-> "exhausted", requests |-> nbr_retries, at |-> 0]
    ELSE LET response == script[nbr_retries + 1] IN
         IF response = NetErr
         THEN search_loop(script, nbr_retries + 1)
         ELSE IF status_code(response) = 200
         THEN IF response = R200ok
              THEN [how |-> "return", cause |-> "ok",
                    requests |-> nbr_retries + 1, at |-> nbr_retries + 1]
              ELSE IF SearchOnBadJson = "break"
              THEN [how |-> "raise", cause |-> "badjson",
                    requests |-> nbr_retries + 1, at |-> 0]
              ELSE search_loop(script, nbr_retries + 1)
         ELSE search_loop(script, nbr_retries + 1)

scrape_search_page_with_retries(script) == search_loop(script, 0)

(***************************************************************************)
(* Extractor Worker: scrape_ad_details.  "return" with at = 0 is the       *)
(* return of None.                                                         *)
(***************************************************************************)
max_retries_detail == 3

DetailLoopGuard(attempt) == attempt < max_retries_detail

\* line 45: return None.
DetailOnBadJson == "return None"

DetailOnNotFoundRetry == "retry"

\* lines 47-49: a 404 is logged and None returned.
DetailOnNotFound == "return None"

RECURSIVE detail_loop(_, _)
detail_loop(script, attempt) ==
    IF ~DetailLoopGuard(attempt)
    THEN [how |-> "raise", cause |-> "exhausted", requests |-> attempt, at |-> 0]
    ELSE LET response == script[attempt + 1] IN
         IF response = NetErr
         THEN detail_loop(script, attempt + 1)
         ELSE IF status_code(response) = 200
         THEN IF response = R200ok
              THEN [how |-> "return", cause |-> "ok",
                    requests |-> attempt + 1, at |-> attempt + 1]
              ELSE IF DetailOnBadJson = "return None"
              THEN [how |-> "return", cause |-> "badjson",
                    requests |-> attempt + 1, at |-> 0]
              ELSE detail_loop(script, attempt + 1)
         ELSE IF status_code(response) = 404 /\ DetailOnNotFound = "return None"
         THEN [how |-> "return", cause |-> "notfound",
               requests |-> attempt + 1, at |-> 0]
         ELSE detail_loop(script, attempt + 1)

scrape_ad_details(script) == detail_loop(script, 0)

\* Scripts are one answer longer than the larger attempt limit, so that a loop
\* making one request too many has an answer to read.
ScriptLen == max_retries_search + 1

Scripts == [1..ScriptLen -> Responses]

NoOutcome == [how |-> "none", cause |-> "none", requests |-> 0, at |-> 0]


(***************************************************************************)
(* Data of the pipeline.                                                   *)
(***************************************************************************)
\* src/dispatcher/lambda_function.py, TRANSACTION_TYPES (the first two).
Categories == {"maison/a-vendre", "maison/a-louer"}

MaxId      == 2     \* listing ids are 1..MaxId
MaxResults == 2     \* results on one search page
MaxPage    == 2     \* page numbers are 1..MaxPage
MaxRecords == 2     \* records in one event
MaxInvocations == 1 \* invocations of one slot

\* result.get("id", None): a result may carry no id, or the id 0.
NoId == -1
ResultIds == {NoId} \cup (0..MaxId)

SeqsUpTo(S, n) == UNION {[1..k -> S] : k \in 0..n}

\* A parsed search body: {"results": [...]} or an object without that key.
Bodies == [has_results : {TRUE}, results : SeqsUpTo(ResultIds, MaxResults)]
            \cup {[has_results |-> FALSE, results |-> <<>>]}

\* line 56: data.get("results", [])
Results(body) == IF body.has_results THEN body.results ELSE <<>>

\* line 104: if ad_id
Truthy(ad_id) == ad_id # NoId /\ ad_id # 0

\* Page batches as the Dispatcher cuts them: runs of consecutive page numbers.
PageLists == {[i \in 1..(b - a + 1) |-> a + i - 1] : a \in 1..MaxPage, b \in 1..MaxPage} \ {<<>>}

PageBatches == [transaction_type : Categories, page_numbers : PageLists]

Events == UNION {[1..k -> PageBatches] : k \in 1..MaxRecords}

\* record['messageId'] of the i-th record of an event.
messageId(i) == i

(***************************************************************************)
(* Decimal strings: update_ssm_parameter stores str(value),                *)
(* get_ssm_parameter reads int(Value).                                     *)
(***************************************************************************)
RECURSIVE str(_)
str(n) == IF n < 10 THEN <<n>> ELSE Append(str(n \div 10), n % 10)

RECURSIVE int(_)
int(s) == IF Len(s) = 0 THEN 0
          ELSE 10 * int(SubSeq(s, 1, Len(s) - 1)) + s[Len(s)]

\* line 121: f"/{transaction_type}"
ssm_parameter_name(transaction_type) == <<"/", transaction_type>>

ParameterNames == {ssm_parameter_name(c) : c \in Categories}

\* A parameter that was never put.
ParameterNotFound == <<>>

GetSsmParameterDefaultOne(store, name) ==
    IF store[name] = ParameterNotFound THEN 1 ELSE int(store[name])

\* get_ssm_parameter, the answers that do not raise.
get_ssm_parameter(store, name) ==
    IF store[name] = ParameterNotFound THEN 0 ELSE int(store[name])

\* update_ssm_parameter, Overwrite=True.
update_ssm_parameter(store, name, value) == [store EXCEPT ![name] = str(value)]

(***************************************************************************)
(* process_record's computations.                                          *)
(***************************************************************************)
RECURSIVE max(_)
max(s) == IF Len(s) = 1 THEN s[1]
          ELSE LET m == max(Tail(s)) IN IF s[1] > m THEN s[1] ELSE m

Range(s) == {s[i] : i \in 1..Len(s)}

NewIdTestAtLeast(x, last_known_max_id) == x >= last_known_max_id

\* line 127: x > last_known_max_id
NewIdTest(x, last_known_max_id) == x > last_known_max_id

new_ids(all_ids_in_batch, last_known_max_id) ==
    SelectSeq(all_ids_in_batch, LAMBDA x : NewIdTest(x, last_known_max_id))

CurrentMaxIdLast(all_ids_in_batch) == all_ids_in_batch[Len(all_ids_in_batch)]

\* line 125: max(all_ids_in_batch)
CurrentMaxId(all_ids_in_batch) == max(all_ids_in_batch)

AdvanceTestAlways(cur, last_known_max_id) == TRUE

\* line 142: current_max_id > last_known_max_id
AdvanceTest(cur, last_known_max_id) == cur > last_known_max_id

\* ID_BATCH_SIZE is read from the environment (line 33, default 100).
ID_BATCH_SIZE == 2

Min(a, b) == IF a < b THEN a ELSE b

ChunkListDropsTail(data, size) ==
    [k \in 1..(Len(data) \div size) |-> SubSeq(data, (k - 1) * size + 1, k * size)]

\* utils.py line 91: [data[i:i + size] for i in range(0, len(data), size)]
chunk_list(data, size) ==
    IF Len(data) = 0 THEN <<>>
    ELSE [k \in 1..((Len(data) + size - 1) \div size) |->
            SubSeq(data, (k - 1) * size + 1, Min(k * size, Len(data)))]

\* lines 102-106: the truthy ids of one page's results, in order.
page_ids(results) == SelectSeq(results, Truthy)


(***************************************************************************)
(* State.                                                                  *)
(*   env        what the environment fixes for a run: the component that   *)
(*              is invoked, whether invocations may overlap, whether the   *)
(*              upstream's pages are frozen (and their contents), the      *)
(*              categories in the queue, and whether the call of line 96   *)
(*              is taken as bound or as written                            *)
(*   ssm        Parameter Store: parameter name -> stored string           *)
(*   forwarded  the listing ids sent to the ID-batch queue, per category   *)
(*   s3keys     the keys put to the bucket                                 *)
(*   dw         the Discovery Worker invocations, one per slot             *)
(*   probe      a scripted run of the two fetch loops                      *)
(*   xw         the Extractor Worker invocation                            *)
(*   dp         the Dispatcher invocation, with the page-batch queue and   *)
(*              the gateways it started                                    *)
(***************************************************************************)
VARIABLES env, ssm, forwarded, s3keys, dw, probe, xw, dp

vars == <<env, ssm, forwarded, s3keys, dw, probe, xw, dp>>

Slots == {1, 2}

\* random.randint(1000, 9999), datetime.now().strftime('%H%M%S%m%d%Y'): the
\* suffixes and the seconds a run may draw.
Suffixes == {1000, 9999}
Stamps   == {"120000"}

\* line 111: f"snapshots/{tt}/{tt.replace('/', '-')}_{random_suffix}_{timestamp}.json"
snapshot_key(transaction_type, random_suffix, timestamp) ==
    <<"snapshots", transaction_type, random_suffix, timestamp>>

\* context.get_remaining_time_in_millis(): the readings a run may see, the
\* threshold among them.  The remaining time only falls.
Clock == {5000, 10000}

MaxRemaining == 10000

NearTimeoutNever(remaining) == FALSE

\* line 163: context.get_remaining_time_in_millis() < 10000
NearTimeout(remaining) == remaining < 10000

ShutdownGatewaySkipped(d) == d

\* utils.py lines 85-89 under the handler's "if gateway:".
shutdown_gateway(d) ==
    IF d.gateway # "none"
    THEN [d EXCEPT !.gateway = "down", !.shutdowns = @ + 1]
    ELSE d

\* "if session: session.close()"
session_close(d) ==
    IF d.session # "none"
    THEN [d EXCEPT !.session = "closed", !.closes = @ + 1]
    ELSE d

\* An invocation that is not running.
DwIdle ==
    [pc |-> "idle", event |-> <<>>, idx |-> 0, batch_item_failures |-> <<>>,
     gateway |-> "none", session |-> "none", outcome |-> "none",
     remaining |-> MaxRemaining,
     \* whether the event lacks its 'Records'; the calls made of
     \* create_session_with_ip_rotation (those that returned), gateway.shutdown
     \* and session.close
     malformed |-> FALSE, acquires |-> 0, shutdowns |-> 0, closes |-> 0,
     invocations |-> 0,
     \* process_record's locals
     page |-> 0, all_ids_in_batch |-> <<>>, snapshot_data_for_batch |-> {},
     last_known_max_id |-> 0, sent |-> <<>>,
     \* what happened to the record last handled
     status |-> "none", cause |-> "none", fetched |-> FALSE, wrote |-> FALSE,
     wm_read |-> FALSE, wm_put |-> FALSE, stored0 |-> ParameterNotFound,
     \* whether a put_object of the invocation used a key already in the bucket
     overwrote |-> FALSE,
     \* the call of process_record that raised for the record in hand: "fetch",
     \* "s3", "sqs", or "none"
     raised |-> "none",
     \* how each record of the event ended, in order
     fate |-> <<>>]

\* How the search fetch of one page can end, over every script of answers.
SearchOutcomes ==
    {[how |-> o.how, cause |-> o.cause] :
        o \in {scrape_search_page_with_retries(sc) : sc \in Scripts}}

record(d) == d.event[d.idx]
transaction_type(d) == record(d).transaction_type
page_numbers(d) == record(d).page_numbers

\* lambda_handler lines 170-172: the record joins batchItemFailures and the loop
\* goes on with the next record.
RecordFailedUnreported(d, cause) ==
    [d EXCEPT !.idx = @ + 1, !.pc = "loop", !.status = "failed", !.cause = cause,
              !.fate = Append(@, cause)]

RecordFailed(d, cause) ==
    [d EXCEPT !.batch_item_failures = Append(@, messageId(d.idx)),
              !.idx = @ + 1, !.pc = "loop", !.status = "failed", !.cause = cause,
              !.fate = Append(@, cause)]

\* process_record returned.
RecordDone(d) ==
    [d EXCEPT !.idx = @ + 1, !.pc = "loop", !.status = "ok", !.cause = "none",
              !.fate = Append(@, "ok")]

PageRaisedGoesOn(d, cause) ==
    [d EXCEPT !.page = @ + 1,
              !.pc = IF d.page = Len(page_numbers(d)) THEN "snapshot" ELSE "fetch"]

\* line 96 stands in no try block: what the fetch raises leaves process_record.
PageRaised(d, cause) == RecordFailed(d, cause)

SendFailedGoesOn(d) == [d EXCEPT !.pc = "write"]

\* lines 132-138 stand in no try block: what send_message raises leaves
\* process_record before the watermark is touched.
SendFailed(d) == RecordFailed(d, "sqs")

Running(w) == dw[w].pc # "idle"

\* lambda_handler is entered with an event of page-batch records.
Invoke(w) ==
    /\ env.component = "discovery"
    /\ dw[w].pc = "idle"
    /\ dw[w].invocations < MaxInvocations
    /\ env.overlap \/ \A v \in Slots \ {w} : ~Running(v)
    /\ w \in env.slots
    /\ \/ \E ev \in Events :
            /\ Len(ev) <= env.records
            /\ \A i \in 1..Len(ev) : ev[i].transaction_type \in env.categories
            /\ dw' = [dw EXCEPT ![w] =
                        [DwIdle EXCEPT !.pc = "acquire", !.event = ev, !.idx = 1,
                                       !.invocations = dw[w].invocations + 1]]
       \/ dw' = [dw EXCEPT ![w] =
                   [DwIdle EXCEPT !.pc = "acquire", !.malformed = TRUE, !.idx = 1,
                                  !.invocations = dw[w].invocations + 1]]
    /\ UNCHANGED <<env, ssm, forwarded, s3keys, probe, xw, dp>>

\* line 159: create_session_with_ip_rotation() returns or raises.
Acquire(w) ==
    /\ dw[w].pc = "acquire"
    /\ \/ dw' = [dw EXCEPT ![w].pc = "loop", ![w].gateway = "up",
                           ![w].session = "open", ![w].acquires = @ + 1]
       \/ dw' = [dw EXCEPT ![w].pc = "finally", ![w].outcome = "raising"]
    /\ UNCHANGED <<env, ssm, forwarded, s3keys, probe, xw, dp>>

\* lines 161-168: the next record, the near-timeout guard, the entry into
\* process_record (lines 84-91).  The remaining time only falls.  An event
\* without 'Records' raises KeyError at line 161, outside the inner try.
NextRecord(w) ==
    LET d == dw[w] IN
    /\ d.pc = "loop"
    /\ IF d.malformed
       THEN dw' = [dw EXCEPT ![w].pc = "finally", ![w].outcome = "raising"]
       ELSE IF d.idx > Len(d.event)
       THEN dw' = [dw EXCEPT ![w].pc = "finally", ![w].outcome = "returning"]
       ELSE \E remaining \in {t \in Clock : t <= d.remaining} :
              IF NearTimeout(remaining)
              THEN dw' = [dw EXCEPT ![w] =
                            [RecordFailed(d, "timeout") EXCEPT
                                !.remaining = remaining,
                                !.fetched = FALSE, !.wrote = FALSE,
                                !.sent = <<>>, !.all_ids_in_batch = <<>>,
                                !.snapshot_data_for_batch = {},
                                !.wm_read = FALSE, !.wm_put = FALSE,
                                !.raised = "none",
                                !.stored0 = ssm[ssm_parameter_name(transaction_type(d))]]]
              ELSE dw' = [dw EXCEPT ![w] =
                            [d EXCEPT !.pc = "fetch", !.page = 1,
                                !.remaining = remaining,
                                !.all_ids_in_batch = <<>>,
                                !.snapshot_data_for_batch = {},
                                !.last_known_max_id = 0, !.sent = <<>>,
                                !.status = "running", !.cause = "none",
                                !.fetched = FALSE, !.wrote = FALSE,
                                !.wm_read = FALSE, !.wm_put = FALSE,
                                !.raised = "none",
                                !.stored0 = ssm[ssm_parameter_name(transaction_type(d))]]]
    /\ UNCHANGED <<env, ssm, forwarded, s3keys, probe, xw, dp>>

\* The parameters of scrape_search_page_with_retries (lines 37-42) and the
\* arguments the call of line 96 passes, all positional.
SearchParameters == <<"session", "gateway", "url", "page_num">>

SearchCallArguments == <<"session", "url", "page_num">>

\* A call with positional arguments only, to a function without defaults.
CallBinds(arguments, parameters) == Len(arguments) = Len(parameters)

\* The bodies the upstream can answer a page with.
UpstreamBodies(c, page_num) ==
    IF env.frozen THEN {env.pages[c][page_num]} ELSE Bodies

\* lines 93-106: one turn of the page loop.
FetchPage(w) ==
    LET d == dw[w] IN
    /\ d.pc = "fetch"
    /\ \E o \in SearchOutcomes :
         IF env.call = "as written" /\ ~CallBinds(SearchCallArguments, SearchParameters)
         THEN dw' = [dw EXCEPT ![w] = PageRaised(d, "TypeError")]
         ELSE IF o.how = "raise"
         THEN dw' = [dw EXCEPT ![w] = [PageRaised(d, o.cause) EXCEPT
                                          !.fetched = TRUE, !.raised = "fetch"]]
         ELSE \E body \in UpstreamBodies(transaction_type(d), page_numbers(d)[d.page]) :
                LET results == Results(body)
                    ids == page_ids(results)
                    last == d.page = Len(page_numbers(d))
                IN dw' = [dw EXCEPT ![w] =
                            [d EXCEPT !.all_ids_in_batch = @ \o ids,
                                      !.snapshot_data_for_batch = @ \cup Range(ids),
                                      !.fetched = TRUE,
                                      !.page = @ + 1,
                                      !.pc = IF last THEN "snapshot" ELSE "fetch"]]
    /\ UNCHANGED <<env, ssm, forwarded, s3keys, probe, xw, dp>>

\* lines 108-119: the snapshot blob, when anything was collected.
Snapshot(w) ==
    LET d == dw[w] IN
    /\ d.pc = "snapshot"
    /\ IF d.snapshot_data_for_batch = {}
       THEN /\ dw' = [dw EXCEPT ![w].pc = "read"]
            /\ UNCHANGED s3keys
       ELSE \/ \E random_suffix \in Suffixes, timestamp \in Stamps :
                 LET s3_key == snapshot_key(transaction_type(d), random_suffix, timestamp)
                 IN /\ s3keys' = s3keys \cup {s3_key}
                    /\ dw' = [dw EXCEPT ![w].pc = "read", ![w].wrote = TRUE,
                                        ![w].overwrote = @ \/ s3_key \in s3keys]
            \/ /\ dw' = [dw EXCEPT ![w] = [RecordFailed(d, "s3") EXCEPT
                                             !.raised = "s3"]]
               /\ UNCHANGED s3keys
    /\ UNCHANGED <<env, ssm, forwarded, probe, xw, dp>>

\* lines 121-122: get_ssm_parameter returns (0 when the parameter is absent)
\* or raises.
ReadWatermark(w) ==
    LET d == dw[w]
        last == get_ssm_parameter(ssm, ssm_parameter_name(transaction_type(d)))
    IN
    /\ d.pc = "read"
    /\ \/ dw' = [dw EXCEPT ![w] =
                   IF d.all_ids_in_batch = <<>>
                   THEN [RecordDone(d) EXCEPT !.last_known_max_id = last,
                                              !.wm_read = TRUE]
                   ELSE [d EXCEPT !.last_known_max_id = last, !.pc = "send",
                                  !.wm_read = TRUE]]
       \/ dw' = [dw EXCEPT ![w] = [RecordFailed(d, "ssm get") EXCEPT !.wm_read = TRUE]]
    /\ UNCHANGED <<env, ssm, forwarded, s3keys, probe, xw, dp>>

\* lines 124-140: the new ids go out in batches; send_message may raise at any
\* batch, the earlier batches are then already in the queue.
SendBatches(w) ==
    LET d == dw[w]
        current_max_id == CurrentMaxId(d.all_ids_in_batch)
        ids == new_ids(d.all_ids_in_batch, d.last_known_max_id)
        id_batches == chunk_list(ids, ID_BATCH_SIZE)
    IN
    /\ d.pc = "send"
    /\ \E n \in 0..Len(id_batches) :
         LET out == SubSeq(id_batches, 1, n) IN
         /\ forwarded' = [forwarded EXCEPT ![transaction_type(d)] =
                             @ \cup UNION {Range(out[i]) : i \in 1..n}]
         /\ dw' = [dw EXCEPT ![w] =
                     IF n < Len(id_batches)
                     THEN [SendFailed(d) EXCEPT !.sent = out, !.raised = "sqs"]
                     ELSE IF AdvanceTest(current_max_id, d.last_known_max_id)
                     THEN [d EXCEPT !.sent = out, !.pc = "write"]
                     ELSE [RecordDone(d) EXCEPT !.sent = out]]
    /\ UNCHANGED <<env, ssm, s3keys, probe, xw, dp>>

\* lines 142-143: update_ssm_parameter puts the parameter or raises.
WriteWatermark(w) ==
    LET d == dw[w]
        current_max_id == CurrentMaxId(d.all_ids_in_batch)
    IN
    /\ d.pc = "write"
    /\ \/ /\ ssm' = update_ssm_parameter(ssm, ssm_parameter_name(transaction_type(d)),
                                         current_max_id)
          /\ dw' = [dw EXCEPT ![w] = [RecordDone(d) EXCEPT !.wm_put = TRUE]]
       \/ /\ dw' = [dw EXCEPT ![w] = RecordFailed(d, "ssm put")]
          /\ UNCHANGED ssm
    /\ UNCHANGED <<env, forwarded, s3keys, probe, xw, dp>>

\* lines 179-191: the gateway is shut down and the session closed when they
\* exist; then the handler returns its failure report or re-raises.
Finally(w) ==
    LET d == dw[w] IN
    /\ d.pc = "finally"
    /\ dw' = [dw EXCEPT ![w] =
                [session_close(shutdown_gateway(d)) EXCEPT
                    !.pc = "idle",
                    !.outcome = IF d.outcome = "returning" THEN "returned"
                                ELSE "raised"]]
    /\ UNCHANGED <<env, ssm, forwarded, s3keys, probe, xw, dp>>

DiscoveryNext ==
    \E w \in Slots :
        \/ Invoke(w)
        \/ Acquire(w)
        \/ NextRecord(w)
        \/ FetchPage(w)
        \/ Snapshot(w)
        \/ ReadWatermark(w)
        \/ SendBatches(w)
        \/ WriteWatermark(w)
        \/ Finally(w)

(***************************************************************************)
(* Extractor Worker (src/extractor_worker/lambda_function.py).             *)
(***************************************************************************)
MaxBatchLen == 2    \* listing ids in one ID-batch message

IdLists == UNION {[1..k -> 1..MaxId] : k \in 1..MaxBatchLen}

IdBatches == [transaction_type : Categories, listing_ids : IdLists]

IdEvents == UNION {[1..k -> IdBatches] : k \in 1..MaxRecords}

\* line 90: f"{tt}/{tt.replace('/', '-')}_{random_suffix}_{timestamp}.json"
detail_key(tt, random_suffix, timestamp) == <<tt, random_suffix, timestamp>>

XwIdle ==
    [pc |-> "idle", event |-> <<>>, idx |-> 0, batch_item_failures |-> <<>>,
     gateway |-> "none", session |-> "none", outcome |-> "none",
     remaining |-> MaxRemaining,
     \* whether the event lacks its 'Records'; the calls made of
     \* create_session_with_ip_rotation (those that returned), gateway.shutdown
     \* and session.close
     malformed |-> FALSE, acquires |-> 0, shutdowns |-> 0, closes |-> 0,
     invocations |-> 0,
     \* process_record's locals: the position in ad_ids, the keys of batch_results
     i |-> 0, batch_results |-> {},
     \* what happened to the record last handled: the ids whose fetch returned a
     \* detail record, the ids answered 404, the ids whose fetch raised, the ids
     \* answered with an unparseable body, the body put to the bucket
     status |-> "none", cause |-> "none", fetched |-> FALSE,
     got |-> {}, gone |-> {}, lost |-> {}, garbled |-> {},
     put |-> FALSE, blob |-> {},
     \* whether a put_object of the invocation used a key already in the bucket
     overwrote |-> FALSE,
     fate |-> <<>>]

\* How the detail fetch of one id can end, over every script of answers.
DetailOutcomes ==
    {[how |-> o.how, cause |-> o.cause] :
        o \in {scrape_ad_details(sc) : sc \in Scripts}}

ad_ids(x) == x.event[x.idx].listing_ids

\* lambda_handler lines 125-127.
XRecordFailed(x, cause) ==
    [x EXCEPT !.batch_item_failures = Append(@, messageId(x.idx)),
              !.idx = @ + 1, !.pc = "loop", !.status = "failed", !.cause = cause,
              !.fate = Append(@, cause)]

XRecordDone(x) ==
    [x EXCEPT !.idx = @ + 1, !.pc = "loop", !.status = "ok", !.cause = "none",
              !.fate = Append(@, "ok")]

\* The id loop goes on with the next id, or leaves for the blob write.
NextAd(x) ==
    [x EXCEPT !.i = @ + 1,
              !.pc = IF x.i = Len(ad_ids(x)) THEN "put" ELSE "ids"]

AdRaisedPropagates(x) == XRecordFailed(x, "exhausted")

\* lines 83-85: what scrape_ad_details raises is logged, the loop continues.
AdRaised(x) == NextAd(x)

\* lines 81-82: a truthy ad_data is kept under str(ad_id).
AdReturned(x, ad_id, ad_data) ==
    NextAd(IF ad_data THEN [x EXCEPT !.batch_results = @ \cup {str(ad_id)}] ELSE x)

XInvoke ==
    /\ env.component = "extractor"
    /\ xw.pc = "idle"
    /\ xw.invocations < MaxInvocations
    /\ \/ \E ev \in IdEvents :
            /\ \A k \in 1..Len(ev) : ev[k].transaction_type \in env.categories
            /\ xw' = [XwIdle EXCEPT !.pc = "acquire", !.event = ev, !.idx = 1,
                                    !.invocations = xw.invocations + 1]
       \/ xw' = [XwIdle EXCEPT !.pc = "acquire", !.malformed = TRUE, !.idx = 1,
                               !.invocations = xw.invocations + 1]
    /\ UNCHANGED <<env, ssm, forwarded, s3keys, dw, probe, dp>>

\* line 114: create_session_with_ip_rotation() returns or raises.
XAcquire ==
    /\ xw.pc = "acquire"
    /\ \/ xw' = [xw EXCEPT !.pc = "loop", !.gateway = "up", !.session = "open",
                           !.acquires = @ + 1]
       \/ xw' = [xw EXCEPT !.pc = "finally", !.outcome = "raising"]
    /\ UNCHANGED <<env, ssm, forwarded, s3keys, dw, probe, dp>>

\* lines 116-123 and 70-76.
XNextRecord ==
    /\ xw.pc = "loop"
    /\ IF xw.malformed
       THEN xw' = [xw EXCEPT !.pc = "finally", !.outcome = "raising"]
       ELSE IF xw.idx > Len(xw.event)
       THEN xw' = [xw EXCEPT !.pc = "finally", !.outcome = "returning"]
       ELSE \E remaining \in {t \in Clock : t <= xw.remaining} :
              LET fresh == [xw EXCEPT !.remaining = remaining,
                                      !.i = 1, !.batch_results = {},
                                      !.fetched = FALSE, !.got = {}, !.gone = {},
                                      !.lost = {}, !.garbled = {},
                                      !.put = FALSE, !.blob = {}]
              IN IF NearTimeout(remaining)
                 THEN xw' = XRecordFailed(fresh, "timeout")
                 ELSE xw' = [fresh EXCEPT !.pc = "ids", !.status = "running",
                                          !.cause = "none"]
    /\ UNCHANGED <<env, ssm, forwarded, s3keys, dw, probe, dp>>

\* lines 78-85: one turn of the id loop.  A parsed body holds a "classified"
\* record or none (data.get("classified") is then None).
XFetchAd ==
    LET ad_id == ad_ids(xw)[xw.i] IN
    /\ xw.pc = "ids"
    /\ \E o \in DetailOutcomes :
         LET seen == [xw EXCEPT !.fetched = TRUE] IN
         IF o.how = "raise"
         THEN xw' = AdRaised([seen EXCEPT !.lost = @ \cup {ad_id}])
         ELSE IF o.cause = "ok"
         THEN \E classified \in BOOLEAN :
                xw' = AdReturned(
                        IF classified THEN [seen EXCEPT !.got = @ \cup {ad_id}] ELSE seen,
                        ad_id, classified)
         ELSE xw' = AdReturned(
                      IF o.cause = "notfound"
                      THEN [seen EXCEPT !.gone = @ \cup {ad_id}]
                      ELSE [seen EXCEPT !.garbled = @ \cup {ad_id}],
                      ad_id, FALSE)
    /\ UNCHANGED <<env, ssm, forwarded, s3keys, dw, probe, dp>>

PutFailedSwallowed(x) == XRecordDone(x)

\* lines 99-101: the ClientError is logged and raised again; nothing in
\* process_record catches it (nor any other exception of put_object).
PutFailed(x) == XRecordFailed(x, "s3")

\* lines 87-102: the detail blob, when any detail was kept.
XPut ==
    /\ xw.pc = "put"
    /\ IF xw.batch_results = {}
       THEN /\ xw' = XRecordDone(xw)
            /\ UNCHANGED s3keys
       ELSE \/ \E random_suffix \in Suffixes, timestamp \in Stamps :
                 LET s3_key == detail_key(xw.event[xw.idx].transaction_type,
                                          random_suffix, timestamp)
                 IN /\ s3keys' = s3keys \cup {s3_key}
                    /\ xw' = XRecordDone([xw EXCEPT !.put = TRUE,
                                                    !.blob = xw.batch_results,
                                                    !.overwrote = @ \/ s3_key \in s3keys])
            \/ /\ xw' = PutFailed(xw)
               /\ UNCHANGED s3keys
    /\ UNCHANGED <<env, ssm, forwarded, dw, probe, dp>>

\* lines 133-139.
XFinally ==
    /\ xw.pc = "finally"
    /\ xw' = [session_close(shutdown_gateway(xw)) EXCEPT
                !.pc = "idle",
                !.outcome = IF xw.outcome = "returning" THEN "returned"
                            ELSE "raised"]
    /\ UNCHANGED <<env, ssm, forwarded, s3keys, dw, probe, dp>>

ExtractorNext ==
    \/ XInvoke
    \/ XAcquire
    \/ XNextRecord
    \/ XFetchAd
    \/ XPut
    \/ XFinally

(***************************************************************************)
(* Dispatcher (src/dispatcher/lambda_function.py).                         *)
(* A gateway is named by the order of its creation; 0 is None.  A session  *)
(* bears the name of the gateway it is mounted on.                         *)
(***************************************************************************)
\* TRANSACTION_TYPES, lines 23-28 (the first two), in their order.
TRANSACTION_TYPES == <<"maison/a-vendre", "maison/a-louer">>

ITEMS_PER_PAGE == 30

\* PAGE_BATCH_SIZE is read from the environment (line 21); its default.
PAGE_BATCH_SIZE == 120

MaxRotations == 2   \* rotations of one invocation in get_total_pages

\* data.get("totalItems", 9969)
TotalItemsFallback == 9969

\* A parsed answer to the page-1 request: the totalItems it reports, or none.
NoTotal == -1
\* 1, 1, 2, 121 and 240 pages: one chunk, a full chunk and one page, two full
\* chunks; the fallback makes 333 pages.
TotalItems == {0, 29, 30, 3600, 7199}
TotalBodies == TotalItems \cup {NoTotal}

total_items(data) == IF data = NoTotal THEN TotalItemsFallback ELSE data

NumPagesWithoutLast(total) == total \div ITEMS_PER_PAGE

\* line 62: (total_items // ITEMS_PER_PAGE) + 1
NumPages(total) == (total \div ITEMS_PER_PAGE) + 1

\* dispatcher/utils.py lines 86-89.
dispatcher_chunk_list(data, size) ==
    IF Len(data) = 0 THEN <<>>
    ELSE [k \in 1..((Len(data) + size - 1) \div size) |->
            SubSeq(data, (k - 1) * size + 1, Min(k * size, Len(data)))]

\* line 94: list(range(1, num_pages + 1))
range1(num_pages) == [i \in 1..num_pages |-> i]

\* list.remove: the first occurrence goes.
RECURSIVE remove(_, _)
remove(list, x) ==
    IF list = <<>> THEN <<>>
    ELSE IF Head(list) = x THEN Tail(list)
    ELSE <<Head(list)>> \o remove(Tail(list), x)

\* context.get_remaining_time_in_millis() as the Dispatcher may read it.
DispatcherClock == {20000, 30000, 60000}

DispatcherNearTimeoutNever(remaining) == FALSE

\* line 84: context.get_remaining_time_in_millis() < 30000
DispatcherNearTimeout(remaining) == remaining < 30000

DpIdle ==
    [pc |-> "idle", t |-> 0, remaining |-> 60000, invocations |-> 0,
     gateway |-> 0, session |-> 0, active_gateways |-> <<>>,
     total_messages_sent |-> 0, outcome |-> "none",
     \* get_total_pages' locals and result
     l_session |-> 0, l_gateway |-> 0, rotations |-> 0, num_pages |-> 0,
     \* the gateways started (each with the index of its category), the
     \* gateways shut down, the adapters and sessions closed
     made |-> <<>>, shut |-> <<>>, adapters_closed |-> {}, sessions_closed |-> {},
     \* the page-batch queue
     queue |-> <<>>,
     \* the category in hand: the totalItems seen (NoTotal: none) and what its
     \* try block raised; per category handled, the same
     total |-> NoTotal, cause |-> "none", totals |-> <<>>, fate |-> <<>>]

trans_type(d) == TRANSACTION_TYPES[d.t]

\* lines 112-113: what the category's try block raises is caught.
DRaised(d, cause) == [d EXCEPT !.pc = "except", !.cause = cause]

\* The loop goes on with the next category.
DNextCategory(d, how) ==
    [d EXCEPT !.t = @ + 1, !.pc = "check", !.fate = Append(@, how),
              !.totals = Append(@, d.total)]

\* shutdown_gateway(gateway), utils.py lines 80-84.
DShutdown(d, gateway) ==
    IF gateway # 0 THEN [d EXCEPT !.shut = Append(@, gateway)] ELSE d

DInvoke ==
    /\ env.component = "dispatcher"
    /\ dp.pc = "idle"
    /\ dp.invocations < MaxInvocations
    /\ dp' = [DpIdle EXCEPT !.pc = "check", !.t = 1,
                            !.invocations = dp.invocations + 1]
    /\ UNCHANGED <<env, ssm, forwarded, s3keys, dw, probe, xw>>

\* lines 80-86: the next category, or the end of the loop; the time check.
DCheck ==
    /\ dp.pc = "check"
    /\ IF dp.t > Len(TRANSACTION_TYPES)
       THEN dp' = [dp EXCEPT !.pc = "finally", !.outcome = "returning"]
       ELSE \E remaining \in {x \in DispatcherClock : x <= dp.remaining} :
              IF DispatcherNearTimeout(remaining)
              THEN dp' = [dp EXCEPT !.pc = "finally", !.outcome = "returning",
                                    !.remaining = remaining]
              ELSE dp' = [dp EXCEPT !.pc = "acquire", !.remaining = remaining,
                                    !.cause = "none", !.total = NoTotal,
                                    !.num_pages = 0]
    /\ UNCHANGED <<env, ssm, forwarded, s3keys, dw, probe, xw>>

\* lines 89-91: create_session_with_ip_rotation() returns or raises; the
\* gateway is tracked and get_total_pages entered.
DAcquire ==
    /\ dp.pc = "acquire"
    /\ \/ LET g == Len(dp.made) + 1 IN
          dp' = [dp EXCEPT !.made = Append(@, dp.t),
                           !.session = g, !.gateway = g,
                           !.active_gateways = Append(@, g),
                           !.l_session = g, !.l_gateway = g,
                           !.pc = "get"]
       \/ dp' = DRaised(dp, "acquire")
    /\ UNCHANGED <<env, ssm, forwarded, s3keys, dw, probe, xw>>

\* get_total_pages, lines 40-62: one request with the session in hand.  On a
\* status other than 200 the session and the adapter are closed
\* (gateway.close(), lines 48-49) and a new session and gateway created (line
\* 52), which only get_total_pages holds.
DGet ==
    /\ dp.pc = "get"
    /\ \E response \in Responses :
         IF response = NetErr
         THEN dp' = DRaised(dp, "fetch")
         ELSE IF status_code(response) = 200
         THEN IF response = R200bad
              THEN dp' = DRaised(dp, "badjson")
              ELSE \E data \in TotalBodies :
                     dp' = [dp EXCEPT !.total = data,
                                      !.num_pages = NumPages(total_items(data)),
                                      !.pc = "send"]
         ELSE /\ dp.rotations < MaxRotations
              /\ LET closed == [dp EXCEPT !.sessions_closed = @ \cup {dp.l_session},
                                          !.adapters_closed = @ \cup {dp.l_gateway},
                                          !.rotations = @ + 1]
                     g == Len(dp.made) + 1
                 IN \/ dp' = [closed EXCEPT !.made = Append(@, dp.t),
                                            !.l_session = g, !.l_gateway = g]
                    \/ dp' = DRaised(closed, "acquire")
    /\ UNCHANGED <<env, ssm, forwarded, s3keys, dw, probe, xw>>

\* lines 94-107: one message per chunk; send_message may raise at any chunk.
DSend ==
    LET page_batches == dispatcher_chunk_list(range1(dp.num_pages), PAGE_BATCH_SIZE)
    IN
    /\ dp.pc = "send"
    /\ \E n \in 0..Len(page_batches) :
         LET out == [k \in 1..n |-> [transaction_type |-> trans_type(dp),
                                     page_numbers |-> page_batches[k]]]
             sent == [dp EXCEPT !.queue = @ \o out]
         IN dp' = IF n < Len(page_batches)
                  THEN DRaised(sent, "sqs")
                  ELSE [sent EXCEPT !.total_messages_sent = @ + Len(page_batches),
                                    !.pc = "release"]
    /\ UNCHANGED <<env, ssm, forwarded, s3keys, dw, probe, xw>>

\* lines 109-110.
DRelease ==
    /\ dp.pc = "release"
    /\ dp' = DNextCategory(
                [DShutdown(dp, dp.gateway) EXCEPT
                    !.active_gateways = remove(@, dp.gateway)], "ok")
    /\ UNCHANGED <<env, ssm, forwarded, s3keys, dw, probe, xw>>

\* lines 112-117.
DExcept ==
    /\ dp.pc = "except"
    /\ dp' = DNextCategory(
                IF dp.gateway \in Range(dp.active_gateways)
                THEN [DShutdown(dp, dp.gateway) EXCEPT
                        !.active_gateways = remove(@, dp.gateway)]
                ELSE dp, dp.cause)
    /\ UNCHANGED <<env, ssm, forwarded, s3keys, dw, probe, xw>>

\* lines 128-132, then the return of line 122.
DFinally ==
    /\ dp.pc = "finally"
    /\ dp' = [dp EXCEPT !.pc = "idle",
                        !.sessions_closed =
                            IF dp.session # 0 THEN @ \cup {dp.session} ELSE @,
                        !.shut = @ \o dp.active_gateways,
                        !.outcome = IF dp.outcome = "returning" THEN "returned"
                                    ELSE "raised"]
    /\ UNCHANGED <<env, ssm, forwarded, s3keys, dw, probe, xw>>

DispatcherNext ==
    \/ DInvoke
    \/ DCheck
    \/ DAcquire
    \/ DGet
    \/ DSend
    \/ DRelease
    \/ DExcept
    \/ DFinally

(***************************************************************************)
(* A scripted run of the fetch loops: the script is fixed at the start,    *)
(* each loop is run on it once.                                            *)
(***************************************************************************)
ProbeIdle ==
    [pc |-> "idle", script |-> <<>>, search |-> NoOutcome, detail |-> NoOutcome,
     \* a run of the two chunk_list functions on one list and size
     data |-> <<>>, size |-> 1, chunks |-> <<>>]

ProbeSearch ==
    /\ probe.pc = "ready"
    /\ probe' = [probe EXCEPT !.pc = "search",
                              !.search = scrape_search_page_with_retries(probe.script)]
    /\ UNCHANGED <<env, ssm, forwarded, s3keys, dw, xw, dp>>

ProbeDetail ==
    /\ probe.pc = "ready"
    /\ probe' = [probe EXCEPT !.pc = "detail",
                              !.detail = scrape_ad_details(probe.script)]
    /\ UNCHANGED <<env, ssm, forwarded, s3keys, dw, xw, dp>>

FetchNext == ProbeSearch \/ ProbeDetail

MaxChunkData == 5   \* length of a list handed to chunk_list
MaxChunkSize == 3   \* chunk sizes are 1..MaxChunkSize

ChunkData == SeqsUpTo(1..2, MaxChunkData)

\* discovery_worker/utils.py chunk_list.
ProbeChunk ==
    /\ probe.pc = "to chunk"
    /\ probe' = [probe EXCEPT !.pc = "chunked",
                              !.chunks = chunk_list(probe.data, probe.size)]
    /\ UNCHANGED <<env, ssm, forwarded, s3keys, dw, xw, dp>>

\* dispatcher/utils.py chunk_list.
ProbeDispatcherChunk ==
    /\ probe.pc = "to chunk"
    /\ probe' = [probe EXCEPT !.pc = "dispatcher chunked",
                              !.chunks = dispatcher_chunk_list(probe.data, probe.size)]
    /\ UNCHANGED <<env, ssm, forwarded, s3keys, dw, xw, dp>>

ChunkNext == ProbeChunk \/ ProbeDispatcherChunk

(***************************************************************************)
(* Specifications.                                                         *)
(***************************************************************************)
EmptyBody == [has_results |-> FALSE, results |-> <<>>]

NoPages == [c \in Categories |-> [p \in 1..MaxPage |-> EmptyBody]]

StoresInit ==
    /\ ssm = [n \in ParameterNames |-> ParameterNotFound]
    /\ forwarded = [c \in Categories |-> {}]
    /\ s3keys = {}
    /\ dw = [w \in Slots |-> DwIdle]
    /\ xw = XwIdle
    /\ dp = DpIdle

\* Invocations one after another, the upstream answering freely.
Init ==
    /\ env = [overlap |-> FALSE, slots |-> {1}, frozen |-> FALSE, pages |-> NoPages,
              categories |-> Categories, records |-> MaxRecords,
              component |-> "discovery",
              call |-> "bound"]
    /\ StoresInit
    /\ probe = ProbeIdle

Next == DiscoveryNext

Spec == Init /\ [][Next]_vars

\* Pages that list ids only, for the runs over frozen contents.
IdBodies == [has_results : {TRUE}, results : SeqsUpTo(1..MaxId, MaxResults)]

OneCategory == CHOOSE c \in Categories : TRUE

\* One category, its pages frozen for the whole run.
InitFrozen ==
    /\ \E pages \in [1..MaxPage -> IdBodies] :
         env = [overlap |-> FALSE, slots |-> {1}, frozen |-> TRUE,
                pages |-> [c \in Categories |->
                             IF c = OneCategory THEN pages ELSE NoPages[c]],
                categories |-> {OneCategory}, records |-> MaxRecords,
                component |-> "discovery",
              call |-> "bound"]
    /\ StoresInit
    /\ probe = ProbeIdle

SpecFrozen == InitFrozen /\ [][Next]_vars

\* Two invocations that may overlap, one record each, one category.
InitOverlap ==
    /\ env = [overlap |-> TRUE, slots |-> Slots, frozen |-> FALSE, pages |-> NoPages,
              categories |-> {OneCategory}, records |-> 1,
              component |-> "discovery",
              call |-> "bound"]
    /\ StoresInit
    /\ probe = ProbeIdle

SpecOverlap == InitOverlap /\ [][Next]_vars

\* The Extractor Worker alone.
InitExtract ==
    /\ env = [overlap |-> FALSE, slots |-> {}, frozen |-> FALSE, pages |-> NoPages,
              categories |-> Categories, records |-> 0,
              component |-> "extractor",
              call |-> "bound"]
    /\ StoresInit
    /\ probe = ProbeIdle

SpecExtract == InitExtract /\ [][ExtractorNext]_vars

\* The fetch loops alone, over every script of answers.
InitFetch ==
    /\ env = [overlap |-> FALSE, slots |-> {}, frozen |-> FALSE, pages |-> NoPages,
              categories |-> {}, records |-> 0, component |-> "none",
              call |-> "bound"]
    /\ StoresInit
    /\ \E sc \in Scripts : probe = [ProbeIdle EXCEPT !.pc = "ready", !.script = sc]

SpecFetch == InitFetch /\ [][FetchNext]_vars

\* One invocation of either worker.
InitWorkers ==
    /\ \E component \in {"discovery", "extractor"} :
         env = [overlap |-> FALSE, slots |-> {1}, frozen |-> FALSE, pages |-> NoPages,
                categories |-> Categories, records |-> MaxRecords,
                component |-> component,
              call |-> "bound"]
    /\ StoresInit
    /\ probe = ProbeIdle

NextWorkers == DiscoveryNext \/ ExtractorNext

SpecWorkers == InitWorkers /\ [][NextWorkers]_vars

\* One invocation of either worker, the call of line 96 as written.
InitWritten ==
    /\ \E component \in {"discovery", "extractor"} :
         env = [overlap |-> FALSE, slots |-> {1}, frozen |-> FALSE, pages |-> NoPages,
                categories |-> Categories, records |-> MaxRecords,
                component |-> component, call |-> "as written"]
    /\ StoresInit
    /\ probe = ProbeIdle

\* process_record does not get past line 96.
DiscoveryWrittenNext ==
    \E w \in Slots :
        \/ Invoke(w)
        \/ Acquire(w)
        \/ NextRecord(w)
        \/ FetchPage(w)
        \/ Finally(w)

NextWritten == DiscoveryWrittenNext \/ ExtractorNext

SpecWritten == InitWritten /\ [][NextWritten]_vars

\* The Dispatcher alone.
InitDispatch ==
    /\ env = [overlap |-> FALSE, slots |-> {}, frozen |-> FALSE, pages |-> NoPages,
              categories |-> Categories, records |-> 0, component |-> "dispatcher",
              call |-> "bound"]
    /\ StoresInit
    /\ probe = ProbeIdle

SpecDispatch == InitDispatch /\ [][DispatcherNext]_vars

\* The two chunk_list functions over every list and size, and the two
\* components that emit chunks: the Dispatcher and the Discovery Worker.
InitChunks ==
    /\ \E component \in {"chunks", "dispatcher", "discovery"} :
         env = [overlap |-> FALSE, slots |-> {1}, frozen |-> FALSE, pages |-> NoPages,
                categories |-> Categories, records |-> MaxRecords,
                component |-> component, call |-> "bound"]
    /\ StoresInit
    /\ \/ env.component = "chunks"
          /\ \E data \in ChunkData, size \in 1..MaxChunkSize :
                probe = [ProbeIdle EXCEPT !.pc = "to chunk", !.data = data,
                                          !.size = size]
       \/ env.component # "chunks" /\ probe = ProbeIdle

NextChunks == ChunkNext \/ DispatcherNext \/ DiscoveryNext

SpecChunks == InitChunks /\ [][NextChunks]_vars

\* One invocation of any of the three components.
InitPipeline ==
    /\ \E component \in {"dispatcher", "discovery", "extractor"} :
         env = [overlap |-> FALSE, slots |-> {1}, frozen |-> FALSE, pages |-> NoPages,
                categories |-> Categories, records |-> MaxRecords,
                component |-> component, call |-> "bound"]
    /\ StoresInit
    /\ probe = ProbeIdle

NextPipeline == DispatcherNext \/ DiscoveryNext \/ ExtractorNext

SpecPipeline == InitPipeline /\ [][NextPipeline]_vars

(***************************************************************************)
(* Properties.                                                             *)
(***************************************************************************)
\* The integer a stored parameter stands for; no parameter stands for 0.
StoredOrZero(raw) == IF raw = ParameterNotFound THEN 0 ELSE int(raw)

Logical(c) == StoredOrZero(ssm[ssm_parameter_name(c)])

\* The record a Discovery invocation handled last.
handled(d) == d.event[d.idx - 1]

Collected(d) == Range(d.all_ids_in_batch)
SentIds(d) == UNION {Range(d.sent[k]) : k \in 1..Len(d.sent)}
Greatest(S) == CHOOSE m \in S : \A x \in S : x <= m
Larger(a, b) == IF a > b THEN a ELSE b

\* C1: with invocations one after another, no step lowers the watermark of any
\* category, whether the record in hand ends well, fails, or is a redelivery.
C1_WatermarkNeverRegresses ==
    [][\A c \in Categories :
          StoredOrZero(ssm'[ssm_parameter_name(c)]) >= Logical(c)]_vars

\* A record went through whose greatest collected id lies below the watermark.
C1_Witness ==
    \E w \in Slots :
        /\ dw[w].status = "ok"
        /\ dw[w].all_ids_in_batch # <<>>
        /\ Greatest(Collected(dw[w])) < StoredOrZero(dw[w].stored0)

C3_WatermarkAfterRecord ==
    \A w \in Slots :
        dw[w].status = "ok" =>
            LET d == dw[w]
                c == handled(d).transaction_type
            IN IF Collected(d) = {}
               THEN ssm[ssm_parameter_name(c)] = d.stored0 /\ ~d.wm_put
               ELSE Logical(c) = Larger(StoredOrZero(d.stored0), Greatest(Collected(d)))

\* A record went through that moved an existing watermark up, its greatest id
\* not the last it collected.
C3_Witness ==
    \E w \in Slots :
        /\ dw[w].status = "ok"
        /\ dw[w].wm_put
        /\ dw[w].stored0 # ParameterNotFound
        /\ dw[w].all_ids_in_batch[Len(dw[w].all_ids_in_batch)] < Greatest(Collected(dw[w]))

C5_RedeliveryAddsOnlyASnapshot ==
    \A w \in Slots :
        LET d == dw[w]
            k == d.idx - 1
        IN (/\ d.status = "ok"
            /\ k >= 2
            /\ d.fate[k - 1] = "ok"
            /\ d.event[k] = d.event[k - 1])
           => /\ d.sent = <<>>
              /\ ~d.wm_put
              /\ ssm[ssm_parameter_name(d.event[k].transaction_type)] = d.stored0
              /\ d.wrote <=> Collected(d) # {}

\* The second of two identical records went through, ids collected both times.
C5_Witness ==
    \E w \in Slots :
        LET d == dw[w] IN
        /\ d.status = "ok"
        /\ d.idx = 3
        /\ d.fate[1] = "ok"
        /\ d.event[2] = d.event[1]
        /\ d.wrote
        /\ forwarded[d.event[2].transaction_type] # {}

\* What the records of msgs forward when handled in that order against the
\* frozen pages, each going through.
RECURSIVE CollectedFrom(_, _, _)
CollectedFrom(c, pages, k) ==
    IF k > Len(pages) THEN <<>>
    ELSE page_ids(Results(env.pages[c][pages[k]])) \o CollectedFrom(c, pages, k + 1)

RECURSIVE ForwardedInOrder(_, _, _)
ForwardedInOrder(msgs, store, out) ==
    IF msgs = <<>> THEN out
    ELSE LET c == Head(msgs).transaction_type
             ids == CollectedFrom(c, Head(msgs).page_numbers, 1)
             last == get_ssm_parameter(store, ssm_parameter_name(c))
         IN IF ids = <<>> THEN ForwardedInOrder(Tail(msgs), store, out)
            ELSE ForwardedInOrder(
                   Tail(msgs),
                   IF AdvanceTest(CurrentMaxId(ids), last)
                   THEN update_ssm_parameter(store, ssm_parameter_name(c), CurrentMaxId(ids))
                   ELSE store,
                   out \cup Range(new_ids(ids, last)))

C7_ExhaustedPageFailsTheMessage ==
    \A w \in Slots :
        \A k \in 1..Len(dw[w].fate) :
            dw[w].fate[k] = "exhausted" =>
                messageId(k) \in Range(dw[w].batch_item_failures)

\* A record of two pages was reported and returned: its first page gave ids, its
\* second ran out of attempts.
C7_Witness ==
    \E w \in Slots :
        LET d == dw[w] IN
        /\ d.pc = "idle"
        /\ d.outcome = "returned"
        /\ d.status = "failed"
        /\ d.cause = "exhausted"
        /\ d.page = 2
        /\ d.all_ids_in_batch # <<>>
        /\ messageId(d.idx - 1) \in Range(d.batch_item_failures)

\* C8: a record of the Extractor that was started and whose blob write did not
\* fail goes through unreported; it put a blob exactly when some fetch returned a
\* detail record, and the blob's keys are exactly those ids.
C8_BlobHoldsExactlyTheDetails ==
    (xw.status \in {"ok", "failed"} /\ xw.cause \notin {"timeout", "s3"})
    => /\ xw.status = "ok"
       /\ messageId(xw.idx - 1) \notin Range(xw.batch_item_failures)
       /\ xw.put <=> xw.got # {}
       /\ {int(key) : key \in xw.blob} = xw.got
       /\ xw.put => xw.blob # {}

\* A record went through with one id kept and another lost to exhaustion.
C8_Witness ==
    /\ xw.status = "ok"
    /\ xw.put
    /\ xw.lost # {}
    /\ xw.got # {}
    /\ xw.got \cap xw.lost = {}

\* C9: what the claim says of one fetch loop: limit requests at most; the body of
\* the first parsed 200 when all answers before it were transient; the raise after
\* exactly limit requests when the first limit answers were all transient.
FetchLoopContract(out, script, limit, transient) ==
    /\ out.requests <= limit
    /\ \A k \in 1..limit :
          (script[k] = R200ok /\ \A j \in 1..(k - 1) : script[j] \in transient)
          => out.how = "return" /\ out.at = k /\ out.requests = k
    /\ (\A j \in 1..limit : script[j] \in transient)
          => out.how = "raise" /\ out.cause = "exhausted" /\ out.requests = limit

C9_BoundedFetchLoops ==
    /\ probe.pc = "search" =>
          FetchLoopContract(probe.search, probe.script, 5, TransientSearch)
    /\ probe.pc = "detail" =>
          FetchLoopContract(probe.detail, probe.script, 3, TransientDetail)

\* The search loop answered 429, 429, then a parsed 200: it returned the third
\* body.
C9_Witness ==
    /\ probe.pc = "search"
    /\ SubSeq(probe.script, 1, 3) = <<R429, R429, R200ok>>
    /\ probe.search.how = "return"
    /\ probe.search.at = 3

C11_NotFoundEndsTheDetailFetch ==
    probe.pc = "detail" =>
        \A k \in 1..max_retries_detail :
            (probe.script[k] = R404
               /\ \A j \in 1..(k - 1) : probe.script[j] \in TransientDetail)
            => /\ probe.detail.how = "return"
               /\ probe.detail.cause = "notfound"
               /\ probe.detail.at = 0
               /\ probe.detail.requests = k

\* The detail loop answered 403, then 404, then a parsed 200: it returned None
\* after two requests.
C11_Witness ==
    /\ probe.pc = "detail"
    /\ SubSeq(probe.script, 1, 3) = <<R403, R404, R200ok>>
    /\ probe.detail.how = "return"
    /\ probe.detail.cause = "notfound"
    /\ probe.detail.requests = 2

\* C12: in both workers, a record met with less than 10000 ms remaining is in
\* the failure report, and nothing was done for it: no request, no blob write,
\* no queue send, no read and no put of the watermark.
C12_PreemptedMessageIsOnlyReported ==
    /\ \A w \in Slots :
          LET d == dw[w] IN
          /\ \A k \in 1..Len(d.fate) :
                d.fate[k] = "timeout" => messageId(k) \in Range(d.batch_item_failures)
          /\ d.remaining < 10000 =>
                /\ d.pc \in {"loop", "finally", "idle"}
                /\ d.status = "failed" /\ d.cause = "timeout"
                /\ messageId(d.idx - 1) \in Range(d.batch_item_failures)
                /\ ~d.fetched /\ ~d.wrote /\ d.sent = <<>>
                /\ ~d.wm_read /\ ~d.wm_put
                /\ ssm[ssm_parameter_name(handled(d).transaction_type)] = d.stored0
    /\ /\ \A k \in 1..Len(xw.fate) :
             xw.fate[k] = "timeout" => messageId(k) \in Range(xw.batch_item_failures)
       /\ xw.remaining < 10000 =>
             /\ xw.pc \in {"loop", "finally", "idle"}
             /\ xw.status = "failed" /\ xw.cause = "timeout"
             /\ messageId(xw.idx - 1) \in Range(xw.batch_item_failures)
             /\ ~xw.fetched /\ ~xw.put /\ xw.batch_results = {}

\* A Discovery invocation returned: its first record went through and forwarded
\* ids, its second was met with 5000 ms remaining and is the only one reported.
C12_Witness ==
    \E w \in Slots :
        LET d == dw[w] IN
        /\ d.pc = "idle" /\ d.outcome = "returned"
        /\ d.fate = <<"ok", "timeout">>
        /\ d.remaining = 5000
        /\ d.batch_item_failures = <<messageId(2)>>
        /\ forwarded[d.event[1].transaction_type] # {}

\* The ways a record fails that the claim names: preempted by the near-timeout
\* guard, a fetch that raised, a collaborator call (S3, SSM, SQS) that raised.
Preempted == {"timeout"}
FetchFailures == {"exhausted", "badjson"}
CollaboratorFailures == {"s3", "ssm get", "sqs", "ssm put"}

\* C13: in an invocation that acquired its session, a record is in the failure
\* report exactly when it was preempted or a fetch or collaborator call of its
\* processing raised; a record all of whose fetches and collaborator calls
\* succeeded is not in it; and every record of the event is handled, whatever
\* the records before it did.
C13_ListedExactlyWhenPreemptedOrFailed ==
    /\ \A w \in Slots :
          LET d == dw[w] IN
          /\ \A k \in 1..Len(d.fate) :
                messageId(k) \in Range(d.batch_item_failures)
                <=> d.fate[k] \in Preempted \cup FetchFailures \cup CollaboratorFailures
          /\ d.outcome = "returned" => Len(d.fate) = Len(d.event)
    /\ /\ \A k \in 1..Len(xw.fate) :
             messageId(k) \in Range(xw.batch_item_failures)
             <=> xw.fate[k] \in Preempted \cup CollaboratorFailures
       /\ xw.outcome = "returned" => Len(xw.fate) = Len(xw.event)

\* C14: when a Dispatcher invocation has ended, every gateway it started, those
\* started while rotating in get_total_pages included, has been shut down.
C14_EveryGatewayIsShutDown ==
    (dp.pc = "idle" /\ dp.outcome \in {"returned", "raised"})
    => \A g \in 1..Len(dp.made) : g \in Range(dp.shut)

RECURSIVE Flatten(_)
Flatten(chunks) ==
    IF chunks = <<>> THEN <<>> ELSE Head(chunks) \o Flatten(Tail(chunks))

\* What the claim says of chunk_list(L, S).
ChunkContract(chunks, L, S) ==
    /\ Flatten(chunks) = L
    /\ \A k \in 1..(Len(chunks) - 1) : Len(chunks[k]) = S
    /\ chunks # <<>> => Len(chunks[Len(chunks)]) \in 1..S
    /\ L = <<>> => chunks = <<>>

\* C16: for every list and every size above 0, both chunk_list functions return
\* chunks that concatenate to the list, all of the size but the last, the last of
\* 1 to size entries, and none for the empty list; every page-batch message in
\* the queue holds 1 to PAGE_BATCH_SIZE pages and every ID-batch message sent
\* holds 1 to ID_BATCH_SIZE ids.
C16_ChunksPartitionTheList ==
    /\ probe.pc \in {"chunked", "dispatcher chunked"} =>
          ChunkContract(probe.chunks, probe.data, probe.size)
    /\ \A k \in 1..Len(dp.queue) :
          Len(dp.queue[k].page_numbers) \in 1..PAGE_BATCH_SIZE
    /\ \A w \in Slots : \A k \in 1..Len(dw[w].sent) :
          Len(dw[w].sent[k]) \in 1..ID_BATCH_SIZE

\* The Discovery Worker's chunk_list cut a list of five into chunks of two: two
\* full chunks and a last one of one entry.
C16_Witness ==
    /\ probe.pc = "chunked"
    /\ Len(probe.data) = 5 /\ probe.size = 2
    /\ Len(probe.chunks) = 3
    /\ Len(probe.chunks[3]) = 1

\* The pages of the category of index k in the page-batch queue, in the order
\* of the messages.
PagesQueued(k) ==
    Flatten([j \in 1..Len(SelectSeq(dp.queue,
                            LAMBDA m : m.transaction_type = TRANSACTION_TYPES[k])) |->
               SelectSeq(dp.queue,
                   LAMBDA m : m.transaction_type = TRANSACTION_TYPES[k])[j].page_numbers])

IsPrefix(a, b) == Len(a) <= Len(b) /\ a = SubSeq(b, 1, Len(a))

\* C17: for a category whose page-1 answer reported T items and whose messages
\* were all sent, the pages in the queue for it are 1, 2, ..., T div 30 + 1,
\* each once and in that order; whatever was sent for a category before its
\* processing ended is the beginning of that run.
C17_PagesOneToNumPagesOnce ==
    \A k \in 1..Len(dp.fate) :
        dp.totals[k] # NoTotal =>
            LET expected == [i \in 1..((dp.totals[k] \div 30) + 1) |-> i] IN
            /\ IsPrefix(PagesQueued(k), expected)
            /\ dp.fate[k] = "ok" => PagesQueued(k) = expected

\* The first category reported 3600 items and went through: 121 pages in two
\* messages.
C17_Witness ==
    /\ Len(dp.fate) >= 1
    /\ dp.fate[1] = "ok"
    /\ dp.totals[1] = 3600
    /\ Len(PagesQueued(1)) = 121
    /\ Len(SelectSeq(dp.queue,
               LAMBDA m : m.transaction_type = TRANSACTION_TYPES[1])) = 2

\* The index of a category in TRANSACTION_TYPES.
IndexOf(c) == CHOOSE k \in 1..Len(TRANSACTION_TYPES) : TRANSACTION_TYPES[k] = c

\* C18: once the Dispatcher has read less than 30000 ms before the category of
\* index t, it is in its cleanup or has returned; every gateway it started and
\* every message in the queue belongs to a category before t, and the
\* categories before t are all that were handled.
C18_NoDispatchAfterTheTimeCheck ==
    dp.remaining < 30000 =>
        /\ dp.pc \in {"finally", "idle"}
        /\ dp.pc = "idle" => dp.outcome = "returned"
        /\ \A g \in 1..Len(dp.made) : dp.made[g] < dp.t
        /\ \A k \in 1..Len(dp.queue) : IndexOf(dp.queue[k].transaction_type) < dp.t
        /\ Len(dp.fate) = dp.t - 1

\* The first category was dispatched, 20000 ms were read before the second, and
\* the invocation returned.
C18_Witness ==
    /\ dp.pc = "idle" /\ dp.outcome = "returned"
    /\ dp.remaining = 20000
    /\ dp.t = 2
    /\ dp.fate = <<"ok">>
    /\ dp.queue # <<>>
    /\ Len(dp.made) = 1

\* C19: in each component, an invocation in which the acquisition of a session
\* failed handles no unit of work after the failure and, when it has ended, has
\* raised: a worker that ended without a session handled no record and raised;
\* a Dispatcher category that ended on a failed acquisition is the last one
\* handled, and the invocation raised.
C19_AcquisitionFailureIsFatal ==
    /\ \A w \in Slots :
          (dw[w].pc = "idle" /\ dw[w].outcome # "none" /\ dw[w].acquires = 0)
          => dw[w].outcome = "raised" /\ dw[w].fate = <<>>
    /\ (xw.pc = "idle" /\ xw.outcome # "none" /\ xw.acquires = 0)
          => xw.outcome = "raised" /\ xw.fate = <<>>
    /\ \A k \in 1..Len(dp.fate) :
          dp.fate[k] = "acquire" =>
             /\ Len(dp.fate) = k
             /\ dp.pc = "idle" => dp.outcome = "raised"

\* C20: a record of the Extractor that ended with details fetched and no blob
\* put (the put raised) is in the failure report, as is every record that ended
\* on a failed put; and an invocation that returned handled every record of its
\* event.
C20_FailedBlobWriteFailsTheMessage ==
    /\ (xw.status \in {"ok", "failed"} /\ xw.got # {} /\ ~xw.put) =>
          /\ xw.status = "failed"
          /\ messageId(xw.idx - 1) \in Range(xw.batch_item_failures)
    /\ \A k \in 1..Len(xw.fate) :
          xw.fate[k] = "s3" => messageId(k) \in Range(xw.batch_item_failures)
    /\ xw.outcome = "returned" => Len(xw.fate) = Len(xw.event)

\* The put of the first record's blob raised; the second record went through
\* and put its blob; the invocation returned, reporting the first.
C20_Witness ==
    /\ xw.pc = "idle" /\ xw.outcome = "returned"
    /\ xw.fate = <<"s3", "ok">>
    /\ xw.put
    /\ xw.batch_item_failures = <<messageId(1)>>

\* C21: no put_object of a worker uses a key that is already in the bucket.
C21_NoBlobKeyIsUsedTwice ==
    /\ \A w \in Slots : ~dw[w].overwrote
    /\ ~xw.overwrote

\* The ids a record in hand owes the ID-batch queue: those it collected above
\* the watermark stored when it began.
NewOf(d) == {x \in Collected(d) : x > StoredOrZero(d.stored0)}

\* C22: a record of the Discovery Worker that put the watermark had sent every
\* one of its ID batches before; a record one of whose sends raised is in the
\* failure report, did not put the watermark, and left the parameter as it was.
C22_WatermarkOnlyAfterEverySend ==
    \A w \in Slots :
        LET d == dw[w] IN
        /\ d.wm_put =>
              /\ SentIds(d) = NewOf(d)
              /\ d.status = "ok"
              /\ NewOf(d) \subseteq forwarded[handled(d).transaction_type]
        /\ d.pc = "write" => SentIds(d) = NewOf(d)
        /\ d.raised = "sqs" =>
              /\ d.status = "failed"
              /\ messageId(d.idx - 1) \in Range(d.batch_item_failures)
              /\ ~d.wm_put
              /\ ssm[ssm_parameter_name(handled(d).transaction_type)] = d.stored0

\* The first ID batch of a record was sent, the send of the second raised: the
\* record is reported and the parameter is still absent.
C22_Witness ==
    \E w \in Slots :
        LET d == dw[w] IN
        /\ d.raised = "sqs"
        /\ Len(d.sent) = 1
        /\ Len(new_ids(d.all_ids_in_batch, d.last_known_max_id)) > ID_BATCH_SIZE
        /\ d.stored0 = ParameterNotFound
        /\ ssm[ssm_parameter_name(handled(d).transaction_type)] = ParameterNotFound

\* C23: a record of the Discovery Worker that failed at a page fetch or at the
\* snapshot write is reported, sent no ID batch and touched no watermark, which
\* is as it was; one that failed at a page fetch wrote no snapshot either.
C23_EarlyFailureLeavesNoTrace ==
    \A w \in Slots :
        LET d == dw[w] IN
        d.raised \in {"fetch", "s3"} =>
            /\ d.status = "failed"
            /\ messageId(d.idx - 1) \in Range(d.batch_item_failures)
            /\ d.sent = <<>>
            /\ ~d.wm_read /\ ~d.wm_put
            /\ ssm[ssm_parameter_name(handled(d).transaction_type)] = d.stored0
            /\ ~d.wrote

\* A record with a stored watermark collected ids from its first page, above
\* the watermark, and its second page ran out of attempts.
C23_Witness ==
    \E w \in Slots :
        LET d == dw[w] IN
        /\ d.raised = "fetch" /\ d.cause = "exhausted"
        /\ d.page = 2
        /\ d.stored0 # ParameterNotFound
        /\ NewOf(d) # {}
        /\ forwarded[handled(d).transaction_type] \cap NewOf(d) = {}

=============================================================================
